---- MODULE Spec2Model ----
(***************************************************************************)
(* Share-of-Search analysis page (src/app.py).                             *)
(*                                                                         *)
(* One press of the run button executes the script body top to bottom:     *)
(* keyword parsing, validation, the trends fetch, the share computation,   *)
(* the two yearly snapshots, the monthly resample and the yearly / YoY     *)
(* table.  Floating point numbers are modelled as exact rationals          *)
(* <<num, den>> extended with NaN and +/-infinity, so "equal" here stands  *)
(* for "equal up to rounding" in the program.                              *)
(***************************************************************************)
EXTENDS Integers, Sequences, FiniteSets

\* ------------------------------------------------------------------ bounds
\* longest list of comma-separated pieces typed into the keyword box
MaxTokens == 6
\* largest interest value the provider reports in a cell
MaxVal == 1

\* the comma-separated pieces a user types: empty, blank, a bare keyword,
\* a keyword padded with blanks
RawTokens == { <<>>, <<" ">>, <<"A">>, <<" ", "B", " ">> }

\* timestamps <<year, month>> the provider may report rows for; 2021-11 and
\* the whole of 2022 can be missing from a frame
Dates == { <<2021, 10>>, <<2021, 12>>, <<2022, 2>>, <<2023, 1>> }

\* years the "Datum do" date input may be set to
EndYears == { d[1] : d \in Dates }

\* the rows of a frame fetched for a timeframe ending in end_year: the
\* provider reports nothing after the requested range
DatesUpTo(end_year) == { d \in Dates : d[1] <= end_year }

\* ------------------------------------------------------- float arithmetic
NaN == <<0, 0>>
PosInf == <<1, 0>>
NegInf == <<-1, 0>>

Abs(x) == IF x < 0 THEN -x ELSE x

RECURSIVE Gcd(_, _)
Gcd(a, b) == IF b = 0 THEN a ELSE Gcd(b, a % b)

\* the rational n/d in lowest terms, d > 0
Rat(n, d) ==
    LET s == IF d < 0 THEN -1 ELSE 1
        g == Gcd(Abs(n), Abs(d))
    IN  <<(s * n) \div g, (s * d) \div g>>

FromInt(n) == <<n, 1>>
IsNaN(x) == x = NaN
IsInf(x) == x = PosInf \/ x = NegInf
Sign(x) == IF x[1] > 0 THEN 1 ELSE IF x[1] < 0 THEN -1 ELSE 0

FAdd(x, y) ==
    IF IsNaN(x) \/ IsNaN(y) THEN NaN
    ELSE IF IsInf(x) /\ IsInf(y) THEN (IF x = y THEN x ELSE NaN)
    ELSE IF IsInf(x) THEN x
    ELSE IF IsInf(y) THEN y
    ELSE Rat(x[1] * y[2] + y[1] * x[2], x[2] * y[2])

FNeg(x) == IF IsNaN(x) THEN NaN ELSE <<-x[1], x[2]>>

FSub(x, y) == FAdd(x, FNeg(y))

FMul(x, y) ==
    IF IsNaN(x) \/ IsNaN(y) THEN NaN
    ELSE IF IsInf(x) \/ IsInf(y)
         THEN (IF Sign(x) * Sign(y) = 0 THEN NaN
               ELSE IF Sign(x) * Sign(y) > 0 THEN PosInf ELSE NegInf)
    ELSE Rat(x[1] * y[1], x[2] * y[2])

\* IEEE division as numpy performs it: x/0 is +/-inf, 0/0 is NaN
FDiv(x, y) ==
    IF IsNaN(x) \/ IsNaN(y) THEN NaN
    ELSE IF IsInf(x) /\ IsInf(y) THEN NaN
    ELSE IF IsInf(x) THEN (IF Sign(y) < 0 THEN FNeg(x) ELSE x)
    ELSE IF IsInf(y) THEN FromInt(0)
    ELSE IF y[1] = 0
         THEN (IF x[1] = 0 THEN NaN ELSE IF x[1] > 0 THEN PosInf ELSE NegInf)
    ELSE Rat(x[1] * y[2], x[2] * y[1])

FGreater(x, y) ==
    /\ ~IsNaN(x)
    /\ ~IsNaN(y)
    /\ x # y
    /\ IF IsInf(x) \/ IsInf(y)
       THEN (x = PosInf \/ y = NegInf)
       ELSE x[1] * y[2] > y[1] * x[2]

\* ------------------------------------------------------------- containers
RECURSIVE SumInt(_, _)
SumInt(f, S) ==
    IF S = {} THEN 0
    ELSE LET c == CHOOSE c \in S : TRUE IN f[c] + SumInt(f, S \ {c})

RECURSIVE SumF(_, _)
SumF(f, S) ==
    IF S = {} THEN FromInt(0)
    ELSE LET c == CHOOSE c \in S : TRUE IN FAdd(f[c], SumF(f, S \ {c}))

Range(s) == { s[i] : i \in 1..Len(s) }

\* Series.sum(): NaN entries are skipped, an all-NaN series sums to 0
SeriesSum(s) == SumF(s, { k \in DOMAIN s : ~IsNaN(s[k]) })

\* column mean over the rows S of a frame: NaN entries are skipped, the mean
\* of no entries is NaN
ColMean(val, S, kw) ==
    LET T == { d \in S : ~IsNaN(val[d][kw]) }
        col == [d \in T |-> val[d][kw]]
    IN  IF T = {} THEN NaN ELSE FDiv(SumF(col, T), FromInt(Cardinality(T)))

\* a frame is [columns: set of column names, index: set of row labels,
\* val: index -> (numeric columns -> number)]
NoFrame == [columns |-> {}, index |-> {}, val |-> <<>>]
NoSeries == <<>>

IsPartialCol == <<"isPartial">>
TotalCol == <<"Total">>

\* ------------------------------------------------------- keyword parsing
RECURSIVE Strip(_)
Strip(s) ==
    IF s = <<>> THEN s
    ELSE IF Head(s) = " " THEN Strip(Tail(s))
    ELSE IF s[Len(s)] = " " THEN Strip(SubSeq(s, 1, Len(s) - 1))
    ELSE s

\* [kw.strip() for kw in keywords_input.split(',') if kw.strip()]
RECURSIVE ParseKeywords(_)
ParseKeywords(pieces) ==
    IF pieces = <<>> THEN <<>>
    ELSE LET kw == Strip(Head(pieces))
         IN  IF kw # <<>> THEN <<kw>> \o ParseKeywords(Tail(pieces))
             ELSE ParseKeywords(Tail(pieces))

\* what the text area can hold, split at the commas: at least one piece
KeywordInputs == UNION { [1..n -> RawTokens] : n \in 1..MaxTokens }

\* the limit of the provider on directly compared keywords
MaxKeywords == 5

IsEmptyList(kws) == Len(kws) = 0

\* off by one in the limit
IsTooLong_Mut(kws) == Len(kws) > MaxKeywords + 1
IsTooLong(kws) == Len(kws) > MaxKeywords

\* ------------------------------------------------------------------ state
VARIABLES pc, keyword_list, end_date, interest_over_time_df, fetched_df, sos_df,
          current_year, sos_current_year, sos_previous_year,
          sos_monthly, sos_yearly, yoy_change, display_df, sorted_columns,
          shown, steps

vars == <<pc, keyword_list, end_date, interest_over_time_df, fetched_df, sos_df,
          current_year, sos_current_year, sos_previous_year,
          sos_monthly, sos_yearly, yoy_change, display_df, sorted_columns,
          shown, steps>>

results == <<sos_df, current_year, sos_current_year, sos_previous_year,
             sos_monthly, sos_yearly, yoy_change, display_df, sorted_columns>>

Init ==
    /\ pc = "idle"
    /\ keyword_list = <<>>
    /\ end_date = 0
    /\ interest_over_time_df = NoFrame
    /\ fetched_df = NoFrame
    /\ sos_df = NoFrame
    /\ current_year = 0
    /\ sos_current_year = NoSeries
    /\ sos_previous_year = NoSeries
    /\ sos_monthly = NoFrame
    /\ sos_yearly = NoFrame
    /\ yoy_change = NoFrame
    /\ display_df = NoFrame
    /\ sorted_columns = <<>>
    /\ shown = {}
    /\ steps = {}

\* the run button is pressed: the script reruns with run_button = True, the
\* keyword box is parsed and the date input is read (end_date holds its year)
Press ==
    /\ pc = "idle"
    /\ \E pieces \in KeywordInputs : keyword_list' = ParseKeywords(pieces)
    /\ \E end_year \in EndYears : end_date' = end_year
    /\ pc' = "validate"
    /\ UNCHANGED <<interest_over_time_df, fetched_df, results, shown, steps>>

WarnEmpty ==
    /\ pc = "validate"
    /\ IsEmptyList(keyword_list)
    /\ shown' = shown \cup {"warning_no_keyword"}
    /\ pc' = "done"
    /\ UNCHANGED <<keyword_list, end_date, interest_over_time_df, fetched_df, results, steps>>

WarnTooMany ==
    /\ pc = "validate"
    /\ ~IsEmptyList(keyword_list)
    /\ IsTooLong(keyword_list)
    /\ shown' = shown \cup {"warning_too_many"}
    /\ pc' = "done"
    /\ UNCHANGED <<keyword_list, end_date, interest_over_time_df, fetched_df, results, steps>>

\* ------------------------------------------------------------ the fetch
\* build_payload + interest_over_time return a frame: one integer column
\* per keyword, optionally the isPartial flag column (its cells are never read
\* by the script and are not modelled), rows for any dates of the requested
\* timeframe.  The provider builds one column per entry of kw_list, so a
\* frame exists only for distinct names; a repeated name ends in FetchFail
FetchOk ==
    /\ pc = "validate"
    /\ ~IsEmptyList(keyword_list)
    /\ ~IsTooLong(keyword_list)
    /\ Cardinality(Range(keyword_list)) = Len(keyword_list)
    /\ \E P \in { {}, {IsPartialCol} }, S \in SUBSET DatesUpTo(end_date) :
         \E v \in [S -> [Range(keyword_list) -> 0..MaxVal]] :
            /\ interest_over_time_df' =
                  [columns |-> Range(keyword_list) \cup P, index |-> S, val |-> v]
            /\ fetched_df' = interest_over_time_df'
    /\ steps' = steps \cup {"fetch"}
    /\ pc' = "fetched"
    /\ UNCHANGED <<keyword_list, end_date, results, shown>>

\* TrendReq / build_payload / interest_over_time raise: the broad handler
\* reports the error, with the extra hint when the message contains '429'
FetchFail ==
    /\ pc = "validate"
    /\ ~IsEmptyList(keyword_list)
    /\ ~IsTooLong(keyword_list)
    /\ \E is429 \in BOOLEAN :
         shown' = shown \cup {"error_exception"}
                        \cup (IF is429 THEN {"warning_429"} ELSE {})
    /\ steps' = steps \cup {"fetch"}
    /\ pc' = "done"
    /\ UNCHANGED <<keyword_list, end_date, interest_over_time_df, fetched_df, results>>

\* the emptiness test never fires
IsEmptyFrame_Mut(df) == FALSE

\* DataFrame.empty
IsEmptyFrame(df) == df.index = {} \/ df.columns = {}

NoData ==
    /\ pc = "fetched"
    /\ IsEmptyFrame(interest_over_time_df)
    /\ shown' = shown \cup {"error_no_data"}
    /\ pc' = "done"
    /\ UNCHANGED <<keyword_list, end_date, interest_over_time_df, fetched_df, results, steps>>

\* --------------------------------------------------- share computation
\* interest_over_time_df.drop(columns=['isPartial']) when the column is there
DropPartial(df) ==
    IF IsPartialCol \in df.columns
    THEN [df EXCEPT !.columns = df.columns \ {IsPartialCol}]
    ELSE df

\* the row sum counts one column too many
RowTotal_Mut(row, columns) == SumInt(row, columns) + 1

\* DataFrame.sum(axis=1) of one row: the sum over every column of the frame
RowTotal(row, columns) == SumInt(row, columns)

\* the statement runs on a frame that already holds Total: the sum doubles
AddTotal_Mut(df) ==
    [columns |-> df.columns \cup {TotalCol},
     index   |-> df.index,
     val     |-> [d \in df.index |->
                    [c \in df.columns \cup {TotalCol} |->
                        IF c = TotalCol THEN 2 * SumInt(df.val[d], df.columns)
                        ELSE df.val[d][c]]]]

\* interest_over_time_df['Total'] = interest_over_time_df.sum(axis=1)
AddTotal(df) ==
    [columns |-> df.columns \cup {TotalCol},
     index   |-> df.index,
     val     |-> [d \in df.index |->
                    [c \in df.columns \cup {TotalCol} |->
                        IF c = TotalCol THEN RowTotal(df.val[d], df.columns)
                        ELSE df.val[d][c]]]]

\* the division is left unguarded: 0/0 is NaN and dropna removes the row
ShareOf_Mut(v, total) == FMul(FDiv(FromInt(v), FromInt(total)), FromInt(100))

\* (row[kw] / row['Total']) * 100 if row['Total'] > 0 else 0
ShareOf(v, total) ==
    IF total > 0 THEN FMul(FDiv(FromInt(v), FromInt(total)), FromInt(100))
    ELSE FromInt(0)

\* sos_df[kw] = interest_over_time_df.apply(...) for kw in keyword_list
Shares(df, kws) ==
    [columns |-> Range(kws),
     index   |-> df.index,
     val     |-> [d \in df.index |->
                    [kw \in Range(kws) |-> ShareOf(df.val[d][kw], df.val[d][TotalCol])]]]

\* sos_df.dropna(inplace=True): rows holding a NaN are removed
DropNa(df) ==
    LET keep == { d \in df.index : \A c \in df.columns : ~IsNaN(df.val[d][c]) }
    IN  [columns |-> df.columns, index |-> keep, val |-> [d \in keep |-> df.val[d]]]

Normalize ==
    /\ pc = "fetched"
    /\ ~IsEmptyFrame(interest_over_time_df)
    /\ shown' = shown \cup {"success"}
    /\ interest_over_time_df' = AddTotal(DropPartial(interest_over_time_df))
    /\ sos_df' = DropNa(Shares(interest_over_time_df', keyword_list))
    /\ steps' = steps \cup {"normalize"}
    /\ pc' = "normalized"
    /\ UNCHANGED <<keyword_list, end_date, fetched_df, current_year, sos_current_year,
                   sos_previous_year, sos_monthly, sos_yearly, yoy_change,
                   display_df, sorted_columns>>

\* --------------------------------------------------- yearly snapshots
YearOf(d) == d[1]
MonthOf(d) == d[1] * 12 + (d[2] - 1)

\* sos_df[sos_df.index.year == year].mean()
Snapshot(df, year) ==
    [kw \in df.columns |->
        ColMean(df.val, { d \in df.index : YearOf(d) = year }, kw)]

\* the sum test is left out
ShowPie_Mut(s) == DOMAIN s # {}

\* not s.empty and s.sum() > 0
ShowPie(s) == DOMAIN s # {} /\ FGreater(SeriesSum(s), FromInt(0))

\* ------------------------------------------------------------ resampling
Min(S) == CHOOSE x \in S : \A y \in S : x <= y
Max(S) == CHOOSE x \in S : \A y \in S : x >= y

\* only the periods that hold rows
Bins_Mut(keys) == keys

\* the bins DataFrame.resample lays out: every period from the one of the
\* first row to the one of the last row, with or without rows in it
Bins(keys) == IF keys = {} THEN {} ELSE Min(keys)..Max(keys)

\* the period a timestamp falls in under rule 'M' (month end) or 'Y' (year
\* end), as a month number or a year
PeriodOf(rule, d) == IF rule = "M" THEN MonthOf(d) ELSE YearOf(d)

\* df.resample(rule).mean(): one row per bin, the column means of the rows in
\* the bin; a bin without rows holds NaN
Resample(df, rule) ==
    LET bins == Bins({ PeriodOf(rule, d) : d \in df.index })
    IN  [columns |-> df.columns,
         index   |-> bins,
         val     |-> [b \in bins |->
                        [kw \in df.columns |->
                            ColMean(df.val, { d \in df.index : PeriodOf(rule, d) = b }, kw)]]]

\* ------------------------------------------------------- year over year
\* fillna(method='pad') at row y: the last value at or before y that is not NaN
Pad(df, y, kw) ==
    LET P == { z \in df.index : z <= y /\ ~IsNaN(df.val[z][kw]) }
    IN  IF P = {} THEN NaN ELSE df.val[Max(P)][kw]

\* the change is taken relative to the current year, not the previous one
PctChange_Mut(df) ==
    [columns |-> df.columns,
     index   |-> df.index,
     val     |-> [y \in df.index |->
                    [kw \in df.columns |->
                        IF y = Min(df.index) THEN NaN
                        ELSE FSub(FromInt(1),
                                  FDiv(Pad(df, y - 1, kw), Pad(df, y, kw)))]]]

\* DataFrame.pct_change() with its default fill_method='pad':
\* data = fillna(pad); data / data.shift(1) - 1
PctChange(df) ==
    [columns |-> df.columns,
     index   |-> df.index,
     val     |-> [y \in df.index |->
                    [kw \in df.columns |->
                        IF y = Min(df.index) THEN NaN
                        ELSE FSub(FDiv(Pad(df, y, kw), Pad(df, y - 1, kw)),
                                  FromInt(1))]]]

\* frame * 100
Times100(df) ==
    [df EXCEPT !.val = [y \in df.index |->
                          [kw \in df.columns |-> FMul(df.val[y][kw], FromInt(100))]]]

SoS(year) == <<"SoS", year>>
YoY(year) == <<"YoY", year>>

\* the display table, keyword rows by 'SoS <year>' / 'YoY <year>' columns;
\* val maps a column label to the column, a series over the keywords
DisplayTable(yearly, yoy) ==
    [columns |-> { SoS(y) : y \in yearly.index } \cup { YoY(y) : y \in yearly.index },
     index   |-> yearly.columns,
     val     |-> [c \in { SoS(y) : y \in yearly.index } \cup { YoY(y) : y \in yearly.index } |->
                    IF c[1] = "SoS" THEN yearly.val[c[2]]
                    ELSE IF c[2] \in yoy.index THEN yoy.val[c[2]]
                    ELSE [kw \in yearly.columns |-> NaN]]]

\* key=lambda x: (x.split(' ')[1], x.split(' ')[0]): the year text, then the
\* kind; years have four digits, so their texts compare as the numbers do,
\* and 'YoY' > 'SoS'
KeyGreater(a, b) ==
    \/ a[2] > b[2]
    \/ a[2] = b[2] /\ a[1] = "YoY" /\ b[1] = "SoS"

\* sorted(display_df.columns, key=..., reverse=True)
RECURSIVE SortedColumns(_)
SortedColumns(labels) ==
    IF labels = {} THEN <<>>
    ELSE LET top == CHOOSE a \in labels : \A b \in labels \ {a} : KeyGreater(a, b)
         IN  <<top>> \o SortedColumns(labels \ {top})

\* the report below the success notice: the two pie charts or their notices
\* for end_date.year and the year before, the monthly bar chart
\* (rows labelled by month number), the yearly SoS / YoY table (sos_yearly is
\* labelled by year, as after sos_yearly.index = sos_yearly.index.year)
Report ==
    /\ pc = "normalized"
    /\ current_year' = end_date
    /\ sos_current_year' = Snapshot(sos_df, current_year')
    /\ sos_previous_year' = Snapshot(sos_df, current_year' - 1)
    /\ sos_monthly' = Resample(sos_df, "M")
    /\ sos_yearly' = Resample(sos_df, "Y")
    /\ yoy_change' = Times100(PctChange(sos_yearly'))
    /\ display_df' = DisplayTable(sos_yearly', yoy_change')
    /\ sorted_columns' = SortedColumns(display_df'.columns)
    /\ shown' = shown
         \cup (IF ShowPie(sos_current_year') THEN {"pie_current"} ELSE {"info_current"})
         \cup (IF ShowPie(sos_previous_year') THEN {"pie_previous"} ELSE {"info_previous"})
         \cup {"bar_chart", "table"}
    /\ steps' = steps \cup {"snapshot", "resample", "yoy"}
    /\ pc' = "done"
    /\ UNCHANGED <<keyword_list, end_date, interest_over_time_df, fetched_df, sos_df>>

\* any later interaction reruns the script from the top: the page of the
\* previous run is discarded
Rerun ==
    /\ pc = "done"
    /\ pc' = "idle"
    /\ keyword_list' = <<>>
    /\ end_date' = 0
    /\ interest_over_time_df' = NoFrame
    /\ fetched_df' = NoFrame
    /\ sos_df' = NoFrame
    /\ current_year' = 0
    /\ sos_current_year' = NoSeries
    /\ sos_previous_year' = NoSeries
    /\ sos_monthly' = NoFrame
    /\ sos_yearly' = NoFrame
    /\ yoy_change' = NoFrame
    /\ display_df' = NoFrame
    /\ sorted_columns' = <<>>
    /\ shown' = {}
    /\ steps' = {}

Next ==
    \/ Press
    \/ WarnEmpty
    \/ WarnTooMany
    \/ FetchOk
    \/ FetchFail
    \/ NoData
    \/ Normalize
    \/ Report
    \/ Rerun

Spec == Init /\ [][Next]_vars

\* ==================================================================
\* Properties
\* ==================================================================
Keywords == Range(keyword_list)

\* the interest a fetched row holds over all keywords
RawTotal(d) == SumInt(fetched_df.val[d], Keywords)

\* the share rows of a calendar year / month
RowsOfYear(y) == { d \in sos_df.index : YearOf(d) = y }
RowsOfMonth(m) == { d \in sos_df.index : MonthOf(d) = m }

\* the sum of the shares of one row of the share series
ShareSum(d) == SumF(sos_df.val[d], Keywords)

\* ------------------------------------------------------------------ C1
\* C1: the fetch and the share computation are reached only with 1 to 5
\* parsed keywords; a run with none or with more than 5 ends with a rejection
\* warning only, and no step of the analysis has run.
C1_FetchOnlyForValidLists ==
    /\ steps # {} => (Len(keyword_list) >= 1 /\ Len(keyword_list) <= 5)
    /\ (pc = "done" /\ ~(Len(keyword_list) >= 1 /\ Len(keyword_list) <= 5)) =>
          /\ steps = {}
          /\ shown \in { {"warning_no_keyword"}, {"warning_too_many"} }
          /\ fetched_df = NoFrame
          /\ sos_df = NoFrame

\* a run with 6 keywords ended with the rejection warning and nothing else
C1_Witness ==
    /\ pc = "done"
    /\ Len(keyword_list) = 6
    /\ shown = {"warning_too_many"}
    /\ steps = {}

YearValue(y, kw) ==
    FDiv(SumF([d \in RowsOfYear(y) |-> sos_df.val[d][kw]], RowsOfYear(y)),
         FromInt(Cardinality(RowsOfYear(y))))

YearsShown == sos_yearly.index

\* C4: whenever the yearly value of a keyword for the preceding year is
\* exactly 0, its year-over-year value is absent (NaN): never infinite,
\* never 0, never another number.
C4_ZeroPriorYearGivesAbsent ==
    "yoy" \in steps =>
        \A y \in YearsShown : \A kw \in Keywords :
            (RowsOfYear(y - 1) # {} /\ YearValue(y - 1, kw) = FromInt(0)) =>
                IsNaN(yoy_change.val[y][kw])

\* ------------------------------------------------------------------ C5
\* C5: the year-over-year value of (keyword, Y) is absent whenever year Y-1
\* has no share row (Y is the earliest year, or Y-1 is a gap year); it is
\* never computed against an older year.
C5_AbsentWithoutPreviousYear ==
    "yoy" \in steps =>
        \A y \in YearsShown : \A kw \in Keywords :
            RowsOfYear(y - 1) = {} => IsNaN(yoy_change.val[y][kw])

\* ------------------------------------------------------------------ C6
\* every calendar year / month number of the modelled period
CalendarYears == Min({ YearOf(d) : d \in Dates })..Max({ YearOf(d) : d \in Dates })
CalendarMonths == Min({ MonthOf(d) : d \in Dates })..Max({ MonthOf(d) : d \in Dates })

\* C6 (as claimed): every bucket of the monthly and of the yearly series has
\* at least one contributing share row.
C6_NoBucketWithoutRows ==
    "resample" \in steps =>
        /\ \A m \in sos_monthly.index : RowsOfMonth(m) # {}
        /\ \A y \in sos_yearly.index : RowsOfYear(y) # {}

\* C6 (amended): the monthly and the yearly series hold one bucket for every
\* calendar month / year from the first share row to the last; a bucket
\* with contributing rows holds numbers, a bucket without holds the absent
\* value (NaN) for every keyword, never 0.
C6_EmptyBucketsArePlaceholders ==
    "resample" \in steps =>
        /\ sos_monthly.index =
              { m \in CalendarMonths :
                  /\ \E d \in sos_df.index : MonthOf(d) <= m
                  /\ \E d \in sos_df.index : MonthOf(d) >= m }
        /\ sos_yearly.index =
              { y \in CalendarYears :
                  /\ \E d \in sos_df.index : YearOf(d) <= y
                  /\ \E d \in sos_df.index : YearOf(d) >= y }
        /\ \A m \in sos_monthly.index : \A kw \in Keywords :
              IsNaN(sos_monthly.val[m][kw]) <=> RowsOfMonth(m) = {}
        /\ \A y \in sos_yearly.index : \A kw \in Keywords :
              IsNaN(sos_yearly.val[y][kw]) <=> RowsOfYear(y) = {}

\* share rows in 2021 and 2023 and none in 2022: a gap year and gap months
C6_Witness ==
    /\ "resample" \in steps
    /\ \E y \in sos_yearly.index : RowsOfYear(y) = {}
    /\ \E m \in sos_monthly.index : RowsOfMonth(m) = {}
    /\ \E m \in sos_monthly.index : Cardinality(RowsOfMonth(m)) = 1
    /\ \E y \in sos_yearly.index : Cardinality(RowsOfYear(y)) = 2

\* ------------------------------------------------------------------ C7
SnapshotIsEmpty(y) ==
    \/ RowsOfYear(y) = {}
    \/ SumF([kw \in Keywords |-> YearValue(y, kw)], Keywords) = FromInt(0)

\* C7: for end_date.year and the year before, the notice replaces the pie
\* chart exactly when the year has no share row or its per-keyword means
\* sum to 0; otherwise the chart is drawn from the per-keyword means of
\* exactly the rows of that year.
C7_SnapshotEmptyExactlyWhenNoData ==
    "snapshot" \in steps =>
        /\ current_year = end_date
        /\ ("info_current" \in shown) <=> SnapshotIsEmpty(current_year)
        /\ ("pie_current" \in shown) <=> ~SnapshotIsEmpty(current_year)
        /\ ("info_previous" \in shown) <=> SnapshotIsEmpty(current_year - 1)
        /\ ("pie_previous" \in shown) <=> ~SnapshotIsEmpty(current_year - 1)
        /\ RowsOfYear(current_year) # {} =>
              \A kw \in Keywords : sos_current_year[kw] = YearValue(current_year, kw)
        /\ RowsOfYear(current_year - 1) # {} =>
              \A kw \in Keywords : sos_previous_year[kw] = YearValue(current_year - 1, kw)

\* the year before end_date.year is drawn from two rows with different
\* shares; end_date.year has a row, but only zeros, and gets the notice
C7_Witness ==
    /\ "snapshot" \in steps
    /\ "pie_previous" \in shown
    /\ Cardinality(RowsOfYear(current_year - 1)) = 2
    /\ \E kw \in Keywords, d, e \in RowsOfYear(current_year - 1) :
          sos_df.val[d][kw] # sos_df.val[e][kw]
    /\ "info_current" \in shown
    /\ RowsOfYear(current_year) # {}

\* ------------------------------------------------------------------ C8
\* the share of a keyword in row d when lines 101-107 run once more on the
\* frame the first pass has left behind: the row sum now runs over every
\* column the frame holds
SecondPassShare(d, kw) ==
    ShareOf(interest_over_time_df.val[d][kw],
            RowTotal(interest_over_time_df.val[d],
                     DropPartial(interest_over_time_df).columns))

C9_EmptyFetchStopsTheRun ==
    /\ (steps \ {"fetch"} # {} \/ shown \cap {"success", "pie_current",
            "info_current", "pie_previous", "info_previous", "bar_chart",
            "table"} # {}) => fetched_df.index # {}
    /\ (pc = "done" /\ "fetch" \in steps /\ "error_exception" \notin shown
            /\ fetched_df.index = {}) =>
          /\ shown = {"error_no_data"}
          /\ steps = {"fetch"}
          /\ sos_df = NoFrame
          /\ display_df = NoFrame

\* a fetch for two keywords returned a frame without rows
C9_Witness ==
    /\ pc = "done"
    /\ "fetch" \in steps
    /\ fetched_df.columns # {}
    /\ fetched_df.index = {}
    /\ shown = {"error_no_data"}

\* ----------------------------------------------------------------- C10
\* C10: when years Y and Y-1 both have share rows and the mean for Y-1 is
\* not 0, the year-over-year value of (keyword, Y) is
\* 100 * (value[Y] - value[Y-1]) / value[Y-1] over the yearly means, and the
\* table holds it in column 'YoY Y', next to the mean in column 'SoS Y'.
C10_YoYFormula ==
    "yoy" \in steps =>
        \A y \in YearsShown : \A kw \in Keywords :
            (/\ RowsOfYear(y) # {}
             /\ RowsOfYear(y - 1) # {}
             /\ YearValue(y - 1, kw) # FromInt(0)) =>
                /\ yoy_change.val[y][kw] =
                      FDiv(FMul(FromInt(100),
                                FSub(YearValue(y, kw), YearValue(y - 1, kw))),
                           YearValue(y - 1, kw))
                /\ {SoS(y), YoY(y)} \subseteq display_df.columns
                /\ {SoS(y), YoY(y)} \subseteq Range(sorted_columns)
                /\ display_df.val[YoY(y)][kw] = yoy_change.val[y][kw]
                /\ display_df.val[SoS(y)][kw] = YearValue(y, kw)

\* a year averaged over two rows with different shares, followed by a year
\* with a different mean
C10_Witness ==
    /\ "yoy" \in steps
    /\ \E y \in YearsShown : \E kw \in Keywords :
          /\ Cardinality(RowsOfYear(y - 1)) = 2
          /\ \E d, e \in RowsOfYear(y - 1) : sos_df.val[d][kw] # sos_df.val[e][kw]
          /\ RowsOfYear(y) # {}
          /\ FGreater(YearValue(y - 1, kw), FromInt(0))
          /\ FGreater(display_df.val[YoY(y)][kw], FromInt(0))

====
